---- MODULE Spec2Model ----
(***************************************************************************)
(* Control-plane model of src/src/LiveStream.js (class EluvioLiveStream):  *)
(* the status deriver (Status), the transition orchestrator (StreamCreate, *)
(* StartOrStopOrReset) and the insertion scheduler (Insertion), together   *)
(* with the metadata store and the ingest node's LRO they talk to.         *)
(***************************************************************************)
EXTENDS Integers, Sequences, FiniteSets, TLC

(***************************************************************************)
(* Bounds of the model.                                                    *)
(***************************************************************************)
\* largest insertion time offered to Insertion
MaxTime == 3
\* Upsert is not offered once the interleave list holds this many entries
MaxLen == 3
\* edge write tokens the metadata store hands out before Create is no longer offered
MaxTokens == 2
\* recording periods per edge write token before start and reset are no longer offered
MaxSeq == 2
\* seconds by which the wall clock advances in one step of the model
TickSeconds == 33
\* the wall clock stops advancing here
MaxNow == 34

(***************************************************************************)
(* Program constants.                                                      *)
(***************************************************************************)
\* Insertion: const audioAbrDuration = 2.005333 (in microseconds)
audioAbrDuration == 2005333
\* Insertion: const videoAbrDuration = 2.002002 (in microseconds)
videoAbrDuration == 2002002
\* Insertion: let currentTime = -1 (never reassigned by the loop)
currentTime == -1

\* Status: sinceLastFinalize > 32.9 (seconds, here in microseconds)
StallThresholdUs == 32900000
\* Status: the doubles between 2^30 and 2^31, where the epoch seconds of the
\* years 2004 to 2038 lie, are the multiples of 2^-22: steps per second
GridPerSecond == 4194304
\* Status: the double 32.9 (line 174) lies between this many steps and the next
StallThresholdGrid == 137992601
\* StartOrStopOrReset: let tries = 10 (termination loop)
TerminateTries == 10
\* StartOrStopOrReset: let tries = 10 (start loop)
StartTries == 10

Procs == {1, 2}
Tokens == 1..MaxTokens

\* insertion times a caller may pass: one below currentTime, and 0..MaxTime
InsTimes == {currentTime - 1} \cup (0..MaxTime)
Durations == {5}
Targets == {"h1", "h2"}

VARIABLES
  nproc,      \* how many callers run operations concurrently
  interleaves,\* edge metadata /live_recording/playout_config/interleaves
  ins,        \* per caller: the locals of its Insertion call
  insHist,    \* per caller: what its last completed Insertion did
  main,       \* the object's published top-level metadata (live_recording)
  edge,       \* per edge write token: the metadata staged under it
  lro,        \* per edge write token: the ingest node's recording task
  nextTok,    \* the next write token the metadata store hands out
  now,        \* wall clock, whole seconds
  proc,       \* per caller: the locals of its running operation
  call,       \* per caller: what its current (or last) operation has done
  termSeen    \* per edge write token: Status has reported terminated for it

insVars == <<nproc, interleaves, ins, insHist>>
worldVars == <<main, edge, lro, nextTok, now>>
orchVars == <<nproc, main, edge, lro, nextTok, now, proc, call, termSeen>>

(***************************************************************************)
(* Array.prototype.splice, as Insertion uses it (0-based start).           *)
(***************************************************************************)
MinOf(a, b) == IF a <= b THEN a ELSE b

\* the elements a.splice(start, count) returns
SpliceRemoved(a, start, count) ==
  SubSeq(a, start + 1, MinOf(start + count, Len(a)))

\* the array a.splice(start, count) leaves behind in a
SpliceLeft(a, start, count) ==
  SubSeq(a, 1, MinOf(start, Len(a))) \o SubSeq(a, start + count + 1, Len(a))

(***************************************************************************)
(* Insertion: the record built at lines 706-712.                           *)
(***************************************************************************)
newInsertion(insertionTime, duration, targetHash) ==
  [insertion_time     |-> insertionTime,
   duration           |-> duration,
   audio_abr_duration |-> audioAbrDuration,
   video_abr_duration |-> videoAbrDuration,
   playout            |-> <<"/qfab/", targetHash, "/rep/playout">>]

\* InsertBefore with the head cut one entry too late
InsertBefore_OffByOne(insertions, i, rec) ==
  SubSeq(insertions, 1, i + 1) \o <<rec>> \o SubSeq(insertions, i + 2, Len(insertions))

\* lines 726-737: the list built when index i (0-based) is the first entry
\* whose time exceeds the new one.  Both splice calls mutate the same array:
\* the second one runs on what the first one left.
InsertBefore(insertions, i, rec) ==
  IF i > 0
    THEN LET head == SpliceRemoved(insertions, 0, i)
             left == SpliceLeft(insertions, 0, i)
             tail == SpliceRemoved(left, i, Len(left))
         IN  head \o <<rec>> \o tail
    ELSE <<rec>> \o SpliceRemoved(insertions, i, Len(insertions))

\* RemoveMatches with <= in place of ==
RemoveMatches_AtMost(entry, insertionTime) == entry.insertion_time <= insertionTime

\* line 720: insertions[i].insertion_time == insertionTime
RemoveMatches(entry, insertionTime) == entry.insertion_time = insertionTime

\* RemoveAt with a deleteCount of 2
RemoveAt_Two(insertions, i) == SpliceLeft(insertions, i, 2)

\* line 721: insertions.splice(i, 1)
RemoveAt(insertions, i) == SpliceLeft(insertions, i, 1)

\* AppendAtEnd with the new record put in front
AppendAtEnd_Front(insertions, rec) == <<rec>> \o insertions

\* lines 747-750: [...insertions, newInsertion]
AppendAtEnd(insertions, rec) == insertions \o <<rec>>

\* lines 714-742: the scan from 0-based index i on.  threw: the call to the
\* undeclared function append (line 717) raised a ReferenceError.
RECURSIVE InsertionLoop(_, _, _, _, _)
InsertionLoop(insertions, i, insertionTime, rec, remove) ==
  IF i >= Len(insertions)
    THEN [threw |-> FALSE, insertionDone |-> FALSE, insertions |-> insertions]
  ELSE IF insertions[i + 1].insertion_time <= currentTime
    THEN [threw |-> TRUE, insertionDone |-> FALSE, insertions |-> insertions]
  ELSE IF remove
    THEN IF RemoveMatches(insertions[i + 1], insertionTime)
           THEN [threw |-> FALSE, insertionDone |-> FALSE,
                 insertions |-> RemoveAt(insertions, i)]
           ELSE InsertionLoop(insertions, i + 1, insertionTime, rec, remove)
  ELSE IF insertions[i + 1].insertion_time > insertionTime
    THEN [threw |-> FALSE, insertionDone |-> TRUE,
          insertions |-> InsertBefore(insertions, i, rec)]
    ELSE InsertionLoop(insertions, i + 1, insertionTime, rec, remove)

\* lines 696-751 and 762-764: what Insertion computes from the list it read:
\* threw, or the result {errors, insertions} (errs is never appended to
\* without throwing, so it is empty whenever the call returns).
InsertionResult(read, insertionTime, duration, targetHash, remove) ==
  LET rec  == newInsertion(insertionTime, duration, targetHash)
      loop == InsertionLoop(read, 0, insertionTime, rec, remove)
      list == IF ~remove /\ ~loop.insertionDone
                THEN AppendAtEnd(loop.insertions, rec)
                ELSE loop.insertions
  IN  [threw |-> loop.threw, errors |-> <<>>,
       insertions |-> IF loop.threw THEN read ELSE list]

(***************************************************************************)
(* Insertion as a caller runs it: it reads the edge metadata (line 690),   *)
(* computes, and replaces the interleaves subtree (line 754).              *)
(***************************************************************************)
InsIdle == [pc |-> "idle", insertionTime |-> 0, duration |-> 0,
            targetHash |-> "", remove |-> FALSE, read |-> <<>>, again |-> FALSE,
            lost |-> <<>>]

NoInsHist == [op |-> "none", insertionTime |-> 0, duration |-> 0,
              targetHash |-> "", read |-> <<>>, threw |-> FALSE,
              errors |-> <<>>, insertions |-> <<>>, stored |-> <<>>,
              occupied |-> FALSE, again |-> FALSE, lost |-> <<>>,
              duringStop |-> FALSE]

\* the call before this one, by the same caller, was a Remove of the same
\* time that returned after deleting an entry
RemovedJustBefore(p, t, remove) ==
  /\ remove
  /\ insHist[p].op = "remove"
  /\ insHist[p].insertionTime = t
  /\ ~insHist[p].threw
  /\ Len(insHist[p].stored) < Len(insHist[p].read)

\* Replaced with the store keeping the entries the new list does not hold
Replaced_Merging(stored, insertions) ==
  insertions \o SelectSeq(stored, LAMBDA e :
                   \A k \in 1..Len(insertions) : insertions[k] # e)

\* lines 754-759: ReplaceMetadata puts the list the call computed in place
\* of the whole interleaves subtree
Replaced(stored, insertions) == insertions

\* lines 667-700: the call starts and reads the interleave list
InsertionRead(p, t, d, h, remove) ==
  /\ p <= nproc
  /\ ins[p].pc = "idle"
  /\ remove \/ Len(interleaves) < MaxLen
  /\ ins' = [ins EXCEPT ![p] = [pc |-> "write", insertionTime |-> t,
                                duration |-> d, targetHash |-> h,
                                remove |-> remove, read |-> interleaves,
                                again |-> RemovedJustBefore(p, t, remove),
                                lost |-> <<>>]]
  /\ UNCHANGED <<interleaves, insHist>>
  /\ UNCHANGED orchVars

\* lines 702-764: the scan, the ReplaceMetadata and the return (a finalized
\* token takes no write: the call throws).  lost: the record another
\* caller's Upsert stored between this call's read and its write.
\* duringStop: the write fell between a StopSession's read of the edge
\* metadata and its ReplaceMetadata.
InsertionWrite(p) ==
  /\ ins[p].pc = "write"
  /\ LET a == ins[p]
         r == InsertionResult(a.read, a.insertionTime, a.duration,
                              a.targetHash, a.remove)
         refused == main.token # 0 /\ edge[main.token].closed
     IN  /\ interleaves' = IF r.threw \/ refused THEN interleaves
                            ELSE Replaced(interleaves, r.insertions)
         /\ insHist' = [insHist EXCEPT ![p] =
              [op |-> IF a.remove THEN "remove" ELSE "upsert",
               insertionTime |-> a.insertionTime, duration |-> a.duration,
               targetHash |-> a.targetHash, read |-> a.read,
               threw |-> r.threw \/ refused, errors |-> r.errors,
               insertions |-> r.insertions, stored |-> interleaves',
               occupied |-> insHist[p].occupied \/
                  (~a.remove /\ \E k \in 1..Len(a.read) :
                       a.read[k].insertion_time = a.insertionTime),
               again |-> a.again, lost |-> a.lost,
               duringStop |-> \E q \in Procs :
                  proc[q].pc \in {"ss_status", "ss_stop", "ss_poll", "ss_replace"}]]
         /\ ins' = [q \in Procs |->
              IF q = p THEN InsIdle
              ELSE IF ins[q].pc = "write" /\ ~a.remove /\ ~r.threw /\ ~refused
                THEN [ins[q] EXCEPT !.lost = <<newInsertion(a.insertionTime,
                                                            a.duration, a.targetHash)>>]
                ELSE ins[q]]
  /\ UNCHANGED orchVars

(***************************************************************************)
(* Status (lines 76-200): the status deriver.                              *)
(***************************************************************************)
\* a status summary whose state was never assigned (status.state undefined)
NoState == "none"

\* line 135: last_finalization_time / 1000000 for the microseconds within a
\* second, as a double next to an epoch second: the nearest multiple of
\* 2^-22, in steps (us * 2^22 / 10^6 = us * 65536 / 15625, never a tie)
FractionOnGrid(us) ==
  LET a == us \div 15625
      b == us % 15625
  IN  65536 * a + (2 * b * 65536 + 15625) \div 31250

\* lines 134-135: sinceLastFinalize in steps of 2^-22 s.  The clock of the
\* model counts whole seconds from an origin inside [2^30, 2^31) epoch
\* seconds, and a non-zero lastFinalizationTime counts microseconds from the
\* same origin; the subtraction of the two doubles is exact.
SinceLastFinalize(lastFinalizationTime, nowSec) ==
  (nowSec - lastFinalizationTime \div 1000000) * GridPerSecond
    - FractionOnGrid(lastFinalizationTime % 1000000)

\* DeriveState with the stall test ahead of the test for a period that never
\* finalized (whose last_finalization_time 0 lies decades back)
DeriveState_StallFirst(state, lastFinalizationTime, nowSec) ==
  IF state = "running" /\ (lastFinalizationTime = 0 \/
       SinceLastFinalize(lastFinalizationTime, nowSec) > StallThresholdGrid)
    THEN "stalled"
  ELSE state

\* lines 172-177: the reported LRO state reconciled with the period's last
\* finalization time (microseconds, 0 when never finalized)
DeriveState(state, lastFinalizationTime, nowSec) ==
  IF state = "running" /\ lastFinalizationTime = 0
    THEN "starting"
  ELSE IF state = "running"
            /\ SinceLastFinalize(lastFinalizationTime, nowSec) > StallThresholdGrid
    THEN "stalled"
  ELSE state

\* lines 108-116: the metadata read under the edge write token; with no
\* token (0) the store returns the published metadata itself
EdgeMetaRead(edgeWriteToken) ==
  IF edgeWriteToken = 0
    THEN [exists |-> TRUE, recSeq |-> IF main.hasRec THEN 1 ELSE 0,
          live |-> FALSE, lastFin |-> 0, status |-> main.status,
          stop_time |-> 0, fc_token |-> main.token, closed |-> FALSE]
    ELSE edge[edgeWriteToken]

\* lines 112-116: whether the metadata staged under the token can be read.
\* Once the token was finalized the node may or may not still serve it; a
\* failed read throws and Status returns the summary built so far (195-199)
CanRead(edgeWriteToken) ==
  IF edgeWriteToken # 0 /\ edge[edgeWriteToken].closed THEN BOOLEAN ELSE {TRUE}

\* line 167: how the GET of live/status/<handle> can end: the state the node
\* reports for a handle it knows, an HTTP error response, or no response
LroPoll(edgeWriteToken, edgeMeta) ==
  {"http", "net"} \cup
    (IF edgeWriteToken # 0 /\ edgeMeta.live THEN {lro[edgeWriteToken].state} ELSE {})

\* lines 164-177 and 195-199: the summary after the poll.  An HTTP error
\* leaves state "stopped"; a failure without a response makes the catch
\* block itself throw (error.response is undefined), and the outer catch
\* returns the summary built so far, without a state.
StatusAfterPoll(edgeWriteToken, edgeMeta, poll) ==
  [state |-> IF poll = "net" THEN NoState
             ELSE DeriveState(IF poll = "http" THEN "stopped" ELSE poll,
                              edgeMeta.lastFin, now),
   edge_write_token |-> edgeWriteToken,
   tlro |-> edgeMeta.recSeq,
   polled |-> TRUE,
   pollFailed |-> poll \in {"http", "net"}]

\* lines 118-124: no recording sequence in the metadata read
NeverStarted(edgeMeta) == edgeMeta.recSeq = 0

\* lines 76-200: every summary Status can return in the current state of
\* the store, the node and the clock (polled, pollFailed: whether it issued
\* the LRO status request, and whether that request failed)
StatusOutcomes ==
  IF ~main.ingress
    THEN {[state |-> NoState, edge_write_token |-> 0, tlro |-> 0,
           polled |-> FALSE, pollFailed |-> FALSE]}
  ELSE LET edgeWriteToken == main.token
           edgeMeta == EdgeMetaRead(edgeWriteToken)
           unread == IF FALSE \in CanRead(edgeWriteToken)
                       THEN {[state |-> NoState, edge_write_token |-> edgeWriteToken,
                              tlro |-> 0, polled |-> FALSE, pollFailed |-> FALSE]}
                       ELSE {}
       IN  unread \cup
           IF NeverStarted(edgeMeta)
             THEN {[state |-> "inactive", edge_write_token |-> edgeWriteToken,
                    tlro |-> 0, polled |-> FALSE, pollFailed |-> FALSE]}
             ELSE {StatusAfterPoll(edgeWriteToken, edgeMeta, poll) :
                     poll \in LroPoll(edgeWriteToken, edgeMeta)}

\* the fields of a summary the callers of Status use
Summary(st) == [state |-> st.state, edge_write_token |-> st.edge_write_token,
                tlro |-> st.tlro]

NoStatus == [state |-> NoState, edge_write_token |-> 0, tlro |-> 0]

(***************************************************************************)
(* The ingest node and the metadata store, as the calls below reach them.  *)
(***************************************************************************)
\* status, stop_time, fc_token: /live_recording/status/state,
\* /recording_stop_time and /live_recording/fabric_config/edge_write_token
\* of the metadata staged under the token; closed: the token was finalized
NoEdge == [exists |-> FALSE, recSeq |-> 0, live |-> FALSE, lastFin |-> 0,
           status |-> "", stop_time |-> 0, fc_token |-> 0, closed |-> FALSE]
NoLro == [state |-> "none", stopReq |-> FALSE]

\* CallBitcodeMethod /live/stop/<tlro> under writeToken (lines 355-361,
\* 467-473): the node marks the task for stopping if the handle is its
\* current one
LiveStop(writeToken, tlro) ==
  IF writeToken # 0 /\ edge[writeToken].live /\ edge[writeToken].recSeq = tlro
       /\ lro[writeToken].state = "running"
    THEN [lro EXCEPT ![writeToken].stopReq = TRUE]
    ELSE lro

\* CallBitcodeMethod /live/start under writeToken (lines 388-394) can only
\* succeed on an existing write token that was not finalized
CanStart(writeToken) ==
  writeToken # 0 /\ edge[writeToken].exists /\ ~edge[writeToken].closed

\* the edge metadata after an accepted live/start: a new recording period
EdgeAfterStart(writeToken) ==
  [edge EXCEPT ![writeToken].recSeq = @ + 1,
               ![writeToken].live = TRUE,
               ![writeToken].lastFin = 0]

\* the stop request has taken effect: the node reports terminated
LroTerminates(t) ==
  /\ lro[t].state = "running"
  /\ lro[t].stopReq
  /\ lro' = [lro EXCEPT ![t] = [state |-> "terminated", stopReq |-> FALSE]]
  /\ UNCHANGED <<main, edge, nextTok, now, proc, call, termSeen>>
  /\ UNCHANGED insVars

\* the source feed delivers: the node finalizes a part of the running period
FeedArrives(t) ==
  /\ lro[t].state = "running"
  /\ edge[t].lastFin # now * 1000000
  /\ edge' = [edge EXCEPT ![t].lastFin = now * 1000000]
  /\ UNCHANGED <<main, lro, nextTok, now, proc, call, termSeen>>
  /\ UNCHANGED insVars

\* time passes
Tick ==
  /\ now + TickSeconds <= MaxNow
  /\ now' = now + TickSeconds
  /\ UNCHANGED <<main, edge, lro, nextTok, proc, call, termSeen>>
  /\ UNCHANGED insVars

(***************************************************************************)
(* Callers.  proc[p] holds the locals of the operation caller p runs; an   *)
(* action is the code from one await of a remote call to the next.         *)
(* call[p] records what the operation has done so far and how it ended.    *)
(***************************************************************************)
ProcIdle == [pc |-> "idle", op |-> "none", start |-> FALSE, status |-> NoStatus,
             tries |-> 0, edgeToken |-> 0, edgeMeta |-> NoEdge,
             edgeInterleaves |-> <<>>]

NoCall == [op |-> "none", first |-> NoState, entry |-> NoState,
           termPolls |-> 0, startPolls |-> 0, sleeps |-> 0,
           stopIssued |-> FALSE, startIssued |-> FALSE, startTok |-> 0,
           startOnTerm |-> FALSE, sawTerm |-> FALSE,
           polled |-> FALSE, pollFailed |-> FALSE,
           allocated |-> 0, replaced |-> FALSE, finalized |-> FALSE,
           kind |-> "none", state |-> NoState, error |-> "", token |-> 0,
           prevStop |-> 0, seenToken |-> 0]

Idle(p) == p <= nproc /\ proc[p].pc \in {"idle", "done"}

\* a fresh record; prevStop: the edge write token of the call just before, if
\* that was a stop which returned terminated without error (0 otherwise).
\* seenToken: the edge write token in the status a StreamCreate derived.
NewCall(p, op) ==
  [NoCall EXCEPT !.op = op,
                 !.prevStop = IF call[p].op = "stop" /\ call[p].kind = "status"
                                   /\ call[p].state = "terminated" /\ call[p].error = ""
                                THEN call[p].token ELSE 0]

\* the call record after Status returned st
Observed(c, st) ==
  [c EXCEPT !.polled = c.polled \/ st.polled,
            !.pollFailed = c.pollFailed \/ st.pollFailed]

\* the call record when the operation returns the status summary st
ReturnStatus(c, st) ==
  [c EXCEPT !.kind = "status", !.state = st.state, !.error = "",
            !.token = st.edge_write_token]

\* the call record when the operation returns {state, error}
ReturnError(c, kind, state, error) ==
  [c EXCEPT !.kind = kind, !.state = state, !.error = error]

NoteTerminated(st) ==
  IF st.state = "terminated" /\ st.edge_write_token # 0
    THEN [termSeen EXCEPT ![st.edge_write_token] = TRUE]
    ELSE termSeen

(***************************************************************************)
(* Status as the CLI command status runs it (EluvioLiveStreamCli.js).      *)
(***************************************************************************)
StatusCmd(p) ==
  /\ Idle(p)
  /\ \E st \in StatusOutcomes :
       /\ call' = [call EXCEPT ![p] =
            ReturnStatus(Observed([NewCall(p, "status") EXCEPT
                                     !.first = st.state, !.entry = st.state], st), st)]
       /\ proc' = [proc EXCEPT ![p] = [ProcIdle EXCEPT !.pc = "done", !.op = "status",
                                                       !.status = Summary(st)]]
       /\ termSeen' = NoteTerminated(st)
  /\ UNCHANGED worldVars
  /\ UNCHANGED insVars

(***************************************************************************)
(* StartOrStopOrReset (lines 343-417).                                     *)
(***************************************************************************)
\* IsActive with inactive counted as active
IsActive_OnlyTerminated(status) == status.state # "terminated"

\* line 349
IsActive(status) == status.state # "terminated" /\ status.state # "inactive"

\* line 376 with the stop return dropped
FailedToTerminate_Never(tries) == FALSE

\* line 376
FailedToTerminate(tries) == tries <= 0

\* line 382 with the comparison never true
ReturnsAfterStop_Never(op) == FALSE

\* line 382
ReturnsAfterStop(op) == op = "stop"

\* TermLoopStep with the budget counted by --tries instead of tries--
TermLoopStep_PreDecrement(status, tries, op) ==
  IF status.state # "terminated" /\ tries - 1 > 0
    THEN [pc |-> "ssr_termpoll", tries |-> tries - 1]
    ELSE LET left == IF status.state # "terminated" THEN tries - 1 ELSE tries
         IN  IF FailedToTerminate(left) THEN [pc |-> "return", tries |-> left]
             ELSE IF ReturnsAfterStop(op) THEN [pc |-> "return", tries |-> left]
             ELSE [pc |-> "ssr_start", tries |-> left]

\* TermLoopStep with a budget of one poll
TermLoopStep_OnePoll(status, tries, op) ==
  IF status.state # "terminated" /\ tries = TerminateTries
    THEN [pc |-> "ssr_termpoll", tries |-> tries - 1]
    ELSE LET left == IF status.state # "terminated" THEN tries - 1 ELSE tries
         IN  IF ReturnsAfterStop(op) THEN [pc |-> "return", tries |-> left]
             ELSE IF FailedToTerminate(left) THEN [pc |-> "return", tries |-> left]
             ELSE [pc |-> "ssr_start", tries |-> left]

\* TermLoopStep with the termination loop left out: the call goes on as
\* soon as live/stop was issued
TermLoopStep_NoWait(status, tries, op) ==
  IF FailedToTerminate(tries) THEN [pc |-> "return", tries |-> tries]
  ELSE IF ReturnsAfterStop(op) THEN [pc |-> "return", tries |-> tries]
  ELSE [pc |-> "ssr_start", tries |-> tries]

\* lines 369-384: the while condition of the termination loop, evaluated
\* with the summary last read and the tries left, and what follows it.
\* tries-- runs only when the left operand of && holds.
TermLoopStep(status, tries, op) ==
  IF status.state # "terminated" /\ tries > 0
    THEN [pc |-> "ssr_termpoll", tries |-> tries - 1]
    ELSE LET left == IF status.state # "terminated" THEN tries - 1 ELSE tries
         IN  IF FailedToTerminate(left) THEN [pc |-> "return", tries |-> left]
             ELSE IF ReturnsAfterStop(op) THEN [pc |-> "return", tries |-> left]
             ELSE [pc |-> "ssr_start", tries |-> left]

\* EntryStep with op == "stop" honoured only inside the active branch
EntryStep_StopFallsThrough(status, op) ==
  IF IsActive(status)
    THEN IF op = "start" THEN [pc |-> "return", tries |-> 0]
         ELSE [pc |-> "ssr_stop", tries |-> 0]
    ELSE [pc |-> "ssr_start", tries |-> 0]

\* EntryStep with start treated like reset on an active stream
EntryStep_StartRestarts(status, op) ==
  IF IsActive(status)
    THEN [pc |-> "ssr_stop", tries |-> 0]
    ELSE IF ReturnsAfterStop(op) THEN [pc |-> "return", tries |-> 0]
         ELSE [pc |-> "ssr_start", tries |-> 0]

\* lines 349-352 and 382-384: where the call goes from the summary it
\* derived first
EntryStep(status, op) ==
  IF IsActive(status)
    THEN IF op = "start" THEN [pc |-> "return", tries |-> 0]
         ELSE [pc |-> "ssr_stop", tries |-> 0]
    ELSE IF ReturnsAfterStop(op) THEN [pc |-> "return", tries |-> 0]
         ELSE [pc |-> "ssr_start", tries |-> 0]

\* StartLoopStep with the budget test tries-- >= 0
StartLoopStep_OneMore(status, tries) ==
  IF status.state # "starting" /\ tries >= 0
    THEN [pc |-> "ssr_startpoll", tries |-> tries - 1]
    ELSE [pc |-> "return",
          tries |-> IF status.state # "starting" THEN tries - 1 ELSE tries]

\* StartLoopStep waiting for running instead of starting
StartLoopStep_UntilRunning(status, tries) ==
  IF status.state # "running" /\ tries > 0
    THEN [pc |-> "ssr_startpoll", tries |-> tries - 1]
    ELSE [pc |-> "return",
          tries |-> IF status.state # "running" THEN tries - 1 ELSE tries]

\* lines 405-412: the while condition of the start loop and what follows
StartLoopStep(status, tries) ==
  IF status.state # "starting" /\ tries > 0
    THEN [pc |-> "ssr_startpoll", tries |-> tries - 1]
    ELSE [pc |-> "return",
          tries |-> IF status.state # "starting" THEN tries - 1 ELSE tries]

\* the caller's locals and record after a loop condition was evaluated
Goes(p, step, st, c) ==
  /\ proc' = [proc EXCEPT ![p].pc = IF step.pc = "return" THEN "done" ELSE step.pc,
                          ![p].tries = step.tries,
                          ![p].status = Summary(st)]
  /\ call' = [call EXCEPT ![p] = IF step.pc = "return" THEN ReturnStatus(c, st) ELSE c]

SSRBegin(p, op) ==
  /\ Idle(p)
  /\ op = "stop" \/ \A t \in Tokens : edge[t].recSeq < MaxSeq
  /\ proc' = [proc EXCEPT ![p] = [ProcIdle EXCEPT !.pc = "ssr_status", !.op = op]]
  /\ call' = [call EXCEPT ![p] = NewCall(p, op)]
  /\ UNCHANGED <<worldVars, termSeen>>
  /\ UNCHANGED insVars

\* lines 348-352 and 382-384
SSRStatus(p) ==
  /\ proc[p].pc = "ssr_status"
  /\ \E st \in StatusOutcomes :
       LET c == Observed([call[p] EXCEPT !.entry = st.state], st)
       IN  /\ Goes(p, EntryStep(st, proc[p].op), st, c)
           /\ termSeen' = NoteTerminated(st)
  /\ UNCHANGED worldVars
  /\ UNCHANGED insVars

\* lines 353-369: live/stop (its failure is swallowed), then the first
\* evaluation of the loop condition
SSRStop(p) ==
  /\ proc[p].pc = "ssr_stop"
  /\ \E delivered \in BOOLEAN :
       lro' = IF delivered
                THEN LiveStop(proc[p].status.edge_write_token, proc[p].status.tlro)
                ELSE lro
  /\ Goes(p, TermLoopStep(proc[p].status, TerminateTries, proc[p].op),
          proc[p].status, [call[p] EXCEPT !.stopIssued = TRUE])
  /\ UNCHANGED <<main, edge, nextTok, now, termSeen>>
  /\ UNCHANGED insVars

\* lines 370-384: sleep(1000), Status, and the loop condition again
SSRTermPoll(p) ==
  /\ proc[p].pc = "ssr_termpoll"
  /\ \E st \in StatusOutcomes :
       /\ Goes(p, TermLoopStep(st, proc[p].tries, proc[p].op), st,
               Observed([call[p] EXCEPT !.sleeps = @ + 1, !.termPolls = @ + 1,
                                        !.sawTerm = @ \/ st.state = "terminated"], st))
       /\ termSeen' = NoteTerminated(st)
  /\ UNCHANGED worldVars
  /\ UNCHANGED insVars

\* lines 398-403 with the catch handing back the status it holds
StartFailed_AsStatus(c, status) ==
  [c EXCEPT !.kind = "status", !.state = status.state, !.token = status.edge_write_token]

\* lines 398-403: the catch of live/start returns the state it holds and an
\* error text
StartFailed(c, status) ==
  ReturnError(c, "error", status.state,
              "LRO start failed - must create a stream first")

\* lines 386-405: live/start, and the first evaluation of the start loop's
\* condition when the node accepted it
SSRStart(p) ==
  /\ proc[p].pc = "ssr_start"
  /\ LET status == proc[p].status
         tok == status.edge_write_token
         c == [call[p] EXCEPT !.startIssued = TRUE,
                              !.startOnTerm = tok # 0 /\ termSeen[tok]]
     IN  \E accepted \in BOOLEAN :
           IF accepted /\ CanStart(tok)
             THEN /\ edge' = EdgeAfterStart(tok)
                  /\ lro' = [lro EXCEPT ![tok] = [state |-> "running", stopReq |-> FALSE]]
                  /\ Goes(p, StartLoopStep(status, StartTries), status,
                          [c EXCEPT !.startTok = tok])
             ELSE /\ proc' = [proc EXCEPT ![p].pc = "done"]
                  /\ call' = [call EXCEPT ![p] = StartFailed(c, status)]
                  /\ UNCHANGED <<edge, lro>>
  /\ UNCHANGED <<main, nextTok, now, termSeen>>
  /\ UNCHANGED insVars

\* lines 406-412: sleep(1000), Status, and the loop condition again
SSRStartPoll(p) ==
  /\ proc[p].pc = "ssr_startpoll"
  /\ \E st \in StatusOutcomes :
       /\ Goes(p, StartLoopStep(st, proc[p].tries), st,
               Observed([call[p] EXCEPT !.sleeps = @ + 1, !.startPolls = @ + 1], st))
       /\ termSeen' = NoteTerminated(st)
  /\ UNCHANGED worldVars
  /\ UNCHANGED insVars

(***************************************************************************)
(* StreamCreate (lines 205-331).                                           *)
(***************************************************************************)
\* line 208 with only a running stream refused
CreateConflict_OnlyRunning(status) == status.state = "running"

\* line 208
CreateConflict(status) == status.state # "inactive" /\ status.state # "terminated"

CreateBegin(p, start) ==
  /\ Idle(p)
  /\ nextTok <= MaxTokens
  /\ proc' = [proc EXCEPT ![p] = [ProcIdle EXCEPT !.pc = "create_status",
                                                  !.op = "create", !.start = start]]
  /\ call' = [call EXCEPT ![p] = NewCall(p, "create")]
  /\ UNCHANGED <<worldVars, termSeen>>
  /\ UNCHANGED insVars

\* lines 207-213
CreateStatus(p) ==
  /\ proc[p].pc = "create_status"
  /\ \E st \in StatusOutcomes :
       LET c == Observed([call[p] EXCEPT !.first = st.state,
                                         !.seenToken = st.edge_write_token], st)
       IN  /\ IF CreateConflict(st)
                THEN /\ proc' = [proc EXCEPT ![p].pc = "done", ![p].status = Summary(st)]
                     /\ call' = [call EXCEPT ![p] =
                          ReturnError(c, "conflict", st.state,
                                      "stream still active - must terminate first")]
                ELSE /\ proc' = [proc EXCEPT ![p].pc = "create_edit", ![p].status = Summary(st)]
                     /\ call' = [call EXCEPT ![p] = c]
           /\ termSeen' = NoteTerminated(st)
  /\ UNCHANGED worldVars
  /\ UNCHANGED insVars

\* lines 215-252: the ingest node is read from the published metadata
\* (fabURI.startsWith throws when it is missing; StreamCreate has no catch),
\* then EditContentObject opens the edge write token: a draft of the
\* published version
CreateEdit(p) ==
  /\ proc[p].pc = "create_edit"
  /\ main.ingress => nextTok <= MaxTokens
  /\ IF ~main.ingress
       THEN /\ proc' = [proc EXCEPT ![p].pc = "done"]
            /\ call' = [call EXCEPT ![p] = ReturnError(call[p], "threw", NoState, "TypeError")]
            /\ UNCHANGED <<edge, nextTok>>
       ELSE /\ proc' = [proc EXCEPT ![p].pc = "create_finalize", ![p].edgeToken = nextTok]
            /\ call' = [call EXCEPT ![p].allocated = @ + 1]
            /\ edge' = [edge EXCEPT ![nextTok] = EdgeMetaRead(0)]
            /\ nextTok' = nextTok + 1
  /\ UNCHANGED <<main, lro, now, termSeen>>
  /\ UNCHANGED insVars

\* the write tokens a call can still name once caller p has published
\* newToken: that one, and those held in the locals of another running call
\* (p's own status is overwritten at line 318)
Nameable(p, newToken) ==
  {newToken} \cup
  UNION {{proc[q].status.edge_write_token, proc[q].edgeToken} :
           q \in {r \in Procs \ {p} : proc[r].pc \notin {"idle", "done"}}}

\* lines 255-330: MergeMetadata and FinalizeContentObject publish the edge
\* write token in fabric_config; the summary returned says "stopped", unless
\* start is set: then StartOrStopOrReset runs with op = start (the boolean).
\* Every call reaches a write token through fabric_config.edge_write_token,
\* so the drafts no call can name any more are out of the program's reach:
\* the store keeps them, the model stops tracking them.
CreateFinalize(p) ==
  /\ proc[p].pc = "create_finalize"
  /\ main' = [main EXCEPT !.token = proc[p].edgeToken, !.status = "active"]
  /\ edge' = [t \in Tokens |-> IF t \in Nameable(p, proc[p].edgeToken) THEN edge[t] ELSE NoEdge]
  /\ lro' = [t \in Tokens |-> IF t \in Nameable(p, proc[p].edgeToken) THEN lro[t] ELSE NoLro]
  /\ termSeen' = [t \in Tokens |-> t \in Nameable(p, proc[p].edgeToken) /\ termSeen[t]]
  /\ LET status == [state |-> "stopped", edge_write_token |-> proc[p].edgeToken,
                    tlro |-> 0]
         c == [call[p] EXCEPT !.finalized = TRUE]
     IN  IF proc[p].start
           THEN /\ proc' = [proc EXCEPT ![p].pc = "ssr_status", ![p].op = "true",
                                        ![p].status = status]
                /\ call' = [call EXCEPT ![p] = c]
           ELSE /\ proc' = [proc EXCEPT ![p].pc = "done", ![p].status = status]
                /\ call' = [call EXCEPT ![p] = ReturnStatus(c, status)]
  /\ UNCHANGED <<nextTok, now>>
  /\ UNCHANGED insVars

(***************************************************************************)
(* StopSession (lines 423-530), the CLI command terminate.  Whatever is    *)
(* thrown inside it is caught at line 527 and the call returns undefined.  *)
(***************************************************************************)
\* the call record when the catch block at lines 527-529 ends the call
ReturnUndefined(c) == ReturnError(c, "undefined", NoState, "")

\* SessionFailedToTerminate with the early return dropped
SessionFailedToTerminate_Never(tries) == FALSE

\* line 488
SessionFailedToTerminate(tries) == tries <= 0

\* NoSession with the test of the edge write token dropped
NoSession_Never(edgeWriteToken) == FALSE

\* line 450: edgeWriteToken == undefined || edgeWriteToken == ""
NoSession(edgeWriteToken) == edgeWriteToken = 0

\* TerminalMeta with the edge write token left in fabric_config
TerminalMeta_KeepsToken(edgeMeta, stopTime) ==
  [edgeMeta EXCEPT !.stop_time = stopTime, !.status = "terminated"]

\* lines 494-504: the stop time, the status block and the emptied edge write
\* token, set in the copy of the edge metadata read at line 456
TerminalMeta(edgeMeta, stopTime) ==
  [edgeMeta EXCEPT !.stop_time = stopTime, !.status = "terminated", !.fc_token = 0]

\* TerminalInterleaves with the list staged under the token left in place
TerminalInterleaves_KeepsStaged(edgeInterleaves, staged) == staged

\* lines 456-460 and 506-511: the interleave list is part of the edgeMeta
\* object that was read before the loop and is written back whole
TerminalInterleaves(edgeInterleaves, staged) == edgeInterleaves

\* StopSessionLoopStep with inactive ending the wait like terminated
StopSessionLoopStep_InactiveEnds(status, tries) ==
  IF status.state \notin {"terminated", "inactive"} /\ tries > 0
    THEN [pc |-> "ss_poll", tries |-> tries - 1]
    ELSE LET left == IF status.state \notin {"terminated", "inactive"}
                       THEN tries - 1 ELSE tries
         IN  IF SessionFailedToTerminate(left) THEN [pc |-> "return", tries |-> left]
             ELSE [pc |-> "ss_replace", tries |-> left]

\* lines 481-492: the while condition of StopSession's termination loop and
\* what follows it
StopSessionLoopStep(status, tries) ==
  IF status.state # "terminated" /\ tries > 0
    THEN [pc |-> "ss_poll", tries |-> tries - 1]
    ELSE LET left == IF status.state # "terminated" THEN tries - 1 ELSE tries
         IN  IF SessionFailedToTerminate(left) THEN [pc |-> "return", tries |-> left]
             ELSE [pc |-> "ss_replace", tries |-> left]

StopSessionBegin(p) ==
  /\ Idle(p)
  /\ proc' = [proc EXCEPT ![p] = [ProcIdle EXCEPT !.pc = "ss_read", !.op = "terminate"]]
  /\ call' = [call EXCEPT ![p] = NewCall(p, "terminate")]
  /\ UNCHANGED <<worldVars, termSeen>>
  /\ UNCHANGED insVars

\* lines 434-460: the published metadata is read (fabURI.startsWith throws
\* when there is no ingress node), the precondition on the edge write token
\* is tested, and the metadata staged under the token is read into edgeMeta
StopSessionRead(p) ==
  /\ proc[p].pc = "ss_read"
  /\ IF ~main.ingress
       THEN /\ proc' = [proc EXCEPT ![p].pc = "done"]
            /\ call' = [call EXCEPT ![p] = ReturnUndefined(call[p])]
       ELSE IF NoSession(main.token)
       THEN /\ proc' = [proc EXCEPT ![p].pc = "done"]
            /\ call' = [call EXCEPT ![p] =
                 ReturnError(call[p], "error", "inactive",
                             "no active streams - must create a stream first")]
       ELSE \E readable \in CanRead(main.token) :
              IF readable
                THEN /\ proc' = [proc EXCEPT ![p].pc = "ss_status",
                                             ![p].edgeToken = main.token,
                                             ![p].edgeMeta = EdgeMetaRead(main.token),
                                             ![p].edgeInterleaves = interleaves]
                     /\ call' = call
                ELSE /\ proc' = [proc EXCEPT ![p].pc = "done"]
                     /\ call' = [call EXCEPT ![p] = ReturnUndefined(call[p])]
  /\ UNCHANGED <<worldVars, termSeen>>
  /\ UNCHANGED insVars

\* lines 463-464
StopSessionStatus(p) ==
  /\ proc[p].pc = "ss_status"
  /\ \E st \in StatusOutcomes :
       /\ proc' = [proc EXCEPT ![p].pc = IF st.state # "terminated"
                                          THEN "ss_stop" ELSE "ss_replace",
                               ![p].status = Summary(st)]
       /\ call' = [call EXCEPT ![p] =
            Observed([call[p] EXCEPT !.first = st.state, !.entry = st.state], st)]
       /\ termSeen' = NoteTerminated(st)
  /\ UNCHANGED worldVars
  /\ UNCHANGED insVars

\* lines 465-481: live/stop (its failure is swallowed), then the first
\* evaluation of the loop condition
StopSessionStop(p) ==
  /\ proc[p].pc = "ss_stop"
  /\ \E delivered \in BOOLEAN :
       lro' = IF delivered
                THEN LiveStop(proc[p].status.edge_write_token, proc[p].status.tlro)
                ELSE lro
  /\ Goes(p, StopSessionLoopStep(proc[p].status, TerminateTries),
          proc[p].status, [call[p] EXCEPT !.stopIssued = TRUE])
  /\ UNCHANGED <<main, edge, nextTok, now, termSeen>>
  /\ UNCHANGED insVars

\* lines 481-492: sleep(1000), Status, and the loop condition again
StopSessionPoll(p) ==
  /\ proc[p].pc = "ss_poll"
  /\ \E st \in StatusOutcomes :
       /\ Goes(p, StopSessionLoopStep(st, proc[p].tries), st,
               Observed([call[p] EXCEPT !.sleeps = @ + 1, !.termPolls = @ + 1,
                                        !.sawTerm = @ \/ st.state = "terminated"], st))
       /\ termSeen' = NoteTerminated(st)
  /\ UNCHANGED worldVars
  /\ UNCHANGED insVars

\* lines 494-511: ReplaceMetadata puts the changed copy in place of the
\* metadata staged under the token (a finalized token takes no write: the
\* call throws)
StopSessionReplace(p) ==
  /\ proc[p].pc = "ss_replace"
  /\ LET edgeWriteToken == proc[p].edgeToken IN
     IF edgeWriteToken = 0 \/ edge[edgeWriteToken].closed
       THEN /\ proc' = [proc EXCEPT ![p].pc = "done"]
            /\ call' = [call EXCEPT ![p] = ReturnUndefined(call[p])]
            /\ edge' = edge
            /\ interleaves' = interleaves
       ELSE /\ edge' = [edge EXCEPT ![edgeWriteToken] =
                          TerminalMeta(proc[p].edgeMeta, now)]
            /\ interleaves' = TerminalInterleaves(proc[p].edgeInterleaves, interleaves)
            /\ proc' = [proc EXCEPT ![p].pc = "ss_finalize"]
            /\ call' = [call EXCEPT ![p].replaced = TRUE]
  /\ UNCHANGED <<main, lro, nextTok, now, termSeen>>
  /\ UNCHANGED <<nproc, ins, insHist>>

\* lines 513-525: FinalizeContentObject with publish: false closes the token
\* and leaves the published version as it is; the call returns
\* {name, edge_write_token, state: "terminated"}
StopSessionFinalize(p) ==
  /\ proc[p].pc = "ss_finalize"
  /\ edge' = [edge EXCEPT ![proc[p].edgeToken].closed = TRUE]
  /\ proc' = [proc EXCEPT ![p].pc = "done"]
  /\ call' = [call EXCEPT ![p] =
       ReturnStatus([call[p] EXCEPT !.finalized = TRUE],
                    [state |-> "terminated", edge_write_token |-> proc[p].edgeToken])]
  /\ UNCHANGED <<main, lro, nextTok, now, termSeen>>
  /\ UNCHANGED insVars

(***************************************************************************)
(* The orchestrator with one caller.                                       *)
(***************************************************************************)
Init ==
  /\ nproc = 1
  /\ main \in [ingress : BOOLEAN, token : {0}, hasRec : BOOLEAN, status : {""}]
  /\ edge = [t \in Tokens |-> NoEdge]
  /\ lro = [t \in Tokens |-> NoLro]
  /\ nextTok = 1
  /\ now = 1
  /\ proc = [p \in Procs |-> ProcIdle]
  /\ call = [p \in Procs |-> NoCall]
  /\ termSeen = [t \in Tokens |-> FALSE]
  /\ interleaves = <<>>
  /\ ins = [p \in Procs |-> InsIdle]
  /\ insHist = [p \in Procs |-> NoInsHist]

Next ==
  \/ \E p \in Procs : StatusCmd(p)
  \/ \E p \in Procs, op \in {"start", "stop", "reset"} : SSRBegin(p, op)
  \/ \E p \in Procs : SSRStatus(p)
  \/ \E p \in Procs : SSRStop(p)
  \/ \E p \in Procs : SSRTermPoll(p)
  \/ \E p \in Procs : SSRStart(p)
  \/ \E p \in Procs : SSRStartPoll(p)
  \/ \E p \in Procs, start \in BOOLEAN : CreateBegin(p, start)
  \/ \E p \in Procs : CreateStatus(p)
  \/ \E p \in Procs : CreateEdit(p)
  \/ \E p \in Procs : CreateFinalize(p)
  \/ \E p \in Procs : StopSessionBegin(p)
  \/ \E p \in Procs : StopSessionRead(p)
  \/ \E p \in Procs : StopSessionStatus(p)
  \/ \E p \in Procs : StopSessionStop(p)
  \/ \E p \in Procs : StopSessionPoll(p)
  \/ \E p \in Procs : StopSessionReplace(p)
  \/ \E p \in Procs : StopSessionFinalize(p)
  \/ \E t \in Tokens : LroTerminates(t)
  \/ \E t \in Tokens : FeedArrives(t)
  \/ Tick

\* the session the insertion scheduler works on: one edge write token,
\* created and advertised, its interleave list empty
InitIns ==
  /\ nproc = 1
  /\ interleaves = <<>>
  /\ ins = [p \in Procs |-> InsIdle]
  /\ insHist = [p \in Procs |-> NoInsHist]
  /\ main = [ingress |-> TRUE, token |-> 1, hasRec |-> FALSE, status |-> "active"]
  /\ edge = [t \in Tokens |-> IF t = 1 THEN [NoEdge EXCEPT !.exists = TRUE] ELSE NoEdge]
  /\ lro = [t \in Tokens |-> NoLro]
  /\ nextTok = 2
  /\ now = 1
  /\ proc = [p \in Procs |-> ProcIdle]
  /\ call = [p \in Procs |-> NoCall]
  /\ termSeen = [t \in Tokens |-> FALSE]

NextIns ==
  \/ \E p \in Procs, t \in InsTimes, d \in Durations, h \in Targets,
        remove \in BOOLEAN : InsertionRead(p, t, d, h, remove)
  \/ \E p \in Procs : InsertionWrite(p)

\* last finalization times offered to Status: never (0), and some
\* microseconds of the first seconds of the model's clock
FinalizationTimes ==
  {0} \cup {sec * 1000000 + us : sec \in 1..2,
                                 us \in {0, 99999, 100000, 100001, 900000}}

\* Status on its own: a started session whose recording task is running or
\* terminated, at some last finalization time, read late on the clock
InitStatus ==
  /\ nproc = 1
  /\ main = [ingress |-> TRUE, token |-> 1, hasRec |-> FALSE, status |-> "active"]
  /\ \E lastFin \in FinalizationTimes :
       edge = [t \in Tokens |->
                 IF t = 1 THEN [NoEdge EXCEPT !.exists = TRUE, !.recSeq = 1,
                                              !.live = TRUE, !.lastFin = lastFin]
                          ELSE NoEdge]
  /\ \E state \in {"running", "terminated"} :
       lro = [t \in Tokens |-> IF t = 1 THEN [state |-> state, stopReq |-> FALSE]
                                        ELSE NoLro]
  /\ nextTok = 2
  /\ now \in {MaxNow - 1, MaxNow}
  /\ proc = [p \in Procs |-> ProcIdle]
  /\ call = [p \in Procs |-> NoCall]
  /\ termSeen = [t \in Tokens |-> FALSE]
  /\ interleaves = <<>>
  /\ ins = [p \in Procs |-> InsIdle]
  /\ insHist = [p \in Procs |-> NoInsHist]

NextStatus == \E p \in Procs : StatusCmd(p)

vars == <<nproc, interleaves, ins, insHist, main, edge, lro, nextTok, now,
          proc, call, termSeen>>

Spec == Init /\ [][Next]_vars

SpecIns == InitIns /\ [][NextIns]_vars

SpecStatus == InitStatus /\ [][NextStatus]_vars

(***************************************************************************)
(* Properties of the insertion scheduler (checked under SpecIns).          *)
(***************************************************************************)
IsSorted(list) ==
  \A k \in 1..(Len(list) - 1) : list[k].insertion_time <= list[k + 1].insertion_time

StrictlyIncreasing(list) ==
  \A k \in 1..(Len(list) - 1) : list[k].insertion_time < list[k + 1].insertion_time

HasGreater(list, t) == \E k \in 1..Len(list) : list[k].insertion_time > t

\* 1-based index of the first entry whose time exceeds t
FirstGreater(list, t) ==
  CHOOSE k \in 1..Len(list) :
    /\ list[k].insertion_time > t
    /\ \A j \in 1..(k - 1) : list[j].insertion_time <= t

\* C1: an Upsert of time t into a sorted list holding an entry later than t
\* stores and returns the entries before the first later entry, the new
\* record, then that entry and all entries after it (one entry more).
C1_UpsertMiddleKeepsAll ==
  \A p \in Procs :
    LET h == insHist[p] IN
    (h.op = "upsert" /\ ~h.threw /\ IsSorted(h.read)
       /\ HasGreater(h.read, h.insertionTime)) =>
      LET k == FirstGreater(h.read, h.insertionTime) IN
      /\ h.insertions = SubSeq(h.read, 1, k - 1)
                          \o <<newInsertion(h.insertionTime, h.duration, h.targetHash)>>
                          \o SubSeq(h.read, k, Len(h.read))
      /\ h.stored = h.insertions
      /\ Len(h.stored) = Len(h.read) + 1

\* C2: from the empty list, as long as no Upsert targeted a time already in
\* the list, the stored list is strictly increasing by insertion_time.
C2_StrictlyIncreasing ==
  (\A p \in Procs : ~insHist[p].occupied) => StrictlyIncreasing(interleaves)

\* a Remove has just shortened a list built by Upserts at fresh times, and
\* at least two entries remain
C2_Witness ==
  /\ insHist[1].op = "remove"
  /\ ~insHist[1].occupied
  /\ Len(insHist[1].read) = Len(interleaves) + 1
  /\ Len(interleaves) >= 2
  /\ ins[1].pc = "idle"

(***************************************************************************)
(* Properties of the orchestrator (checked under Spec).                    *)
(***************************************************************************)
Done(p) == proc[p].pc = "done"

EntryActive(p) == call[p].entry \notin {"terminated", "inactive"}

\* C3: start on a stream (a session with an edge write token) whose derived
\* state is stopped issues live/start (and goes on to poll for starting).
C3_StartFromStoppedStarts ==
  \A p \in Procs :
    (Done(p) /\ call[p].op = "start" /\ call[p].entry = "stopped"
       /\ proc[p].status.edge_write_token # 0) =>
      call[p].startIssued

\* C4: stop on an active stream returns a summary, never an error; it keeps
\* polling while no poll has reported terminated, up to the 10th poll, and a
\* poll that reports terminated (the k-th, k = 1..10) makes it return
\* terminated.
C4_StopReturnsTerminated ==
  \A p \in Procs :
    (Done(p) /\ call[p].op = "stop" /\ EntryActive(p)) =>
      /\ call[p].kind = "status" /\ call[p].error = ""
      /\ call[p].stopIssued
      /\ call[p].termPolls \in 1..10
      /\ call[p].sawTerm => call[p].state = "terminated"
      /\ ~call[p].sawTerm => call[p].termPolls = 10

\* the 10th poll is the first to report terminated, and stop returns it
C4_Witness ==
  /\ Done(1) /\ call[1].op = "stop" /\ EntryActive(1)
  /\ call[1].termPolls = 10 /\ call[1].sawTerm
  /\ call[1].state = "terminated"

\* C5: stop or reset on an active stream that saw no terminated in its 10
\* polls returns the summary last observed (not terminated) as a normal
\* result, and has issued no live/start.
C5_TimeoutReturnsLastStatus ==
  \A p \in Procs :
    (Done(p) /\ call[p].op \in {"stop", "reset"} /\ EntryActive(p)
       /\ ~call[p].sawTerm) =>
      /\ call[p].termPolls = 10
      /\ call[p].kind = "status" /\ call[p].error = ""
      /\ call[p].state = proc[p].status.state
      /\ call[p].state # "terminated"
      /\ ~call[p].startIssued

\* a reset has used its 10 polls without seeing terminated
C5_Witness ==
  /\ Done(1) /\ call[1].op = "reset" /\ EntryActive(1)
  /\ ~call[1].sawTerm /\ call[1].termPolls = 10
  /\ call[1].state = "running"

\* C6: a stop right after a stop that returned terminated, on the same edge
\* write token and with the LRO status request made and answered, returns
\* terminated again, without error.
C6_StopTwice ==
  \A p \in Procs :
    (Done(p) /\ call[p].op = "stop" /\ call[p].prevStop # 0
       /\ call[p].prevStop = main.token
       /\ call[p].polled /\ ~call[p].pollFailed) =>
      /\ call[p].kind = "status" /\ call[p].error = ""
      /\ call[p].state = "terminated"
      /\ ~call[p].startIssued

\* the second of two successive stops has returned
C6_Witness ==
  /\ Done(1) /\ call[1].op = "stop" /\ call[1].prevStop # 0
  /\ call[1].prevStop = main.token /\ ~call[1].pollFailed
  /\ call[1].polled /\ call[1].state = "terminated"

C8_CreateLeavesStopped ==
  \A p \in Procs :
    (Done(p) /\ call[p].op = "create" /\ ~proc[p].start /\ call[p].kind = "status"
       /\ call[p].first \in {"inactive", "terminated"}) =>
      /\ call[p].state = "stopped"
      /\ \A st \in StatusOutcomes : st.state = "stopped"

\* C9: Create returns the conflict result {state, error} whenever the state
\* it derived is neither inactive nor terminated, having allocated, written
\* and finalized nothing; it allocates and advertises a token only from
\* inactive or terminated.
C9_CreateConflict ==
  \A p \in Procs :
    call[p].op = "create" =>
      /\ (Done(p) /\ call[p].first \notin {"inactive", "terminated"}) =>
            /\ call[p].kind = "conflict"
            /\ call[p].state = call[p].first
            /\ call[p].error = "stream still active - must terminate first"
      /\ (call[p].allocated > 0 \/ call[p].finalized \/ proc[p].edgeToken # 0) =>
            call[p].first \in {"inactive", "terminated"}
      /\ (call[p].finalized /\ call[p].first \in {"inactive", "terminated"}) =>
            /\ call[p].allocated = 1
            /\ main.token = proc[p].edgeToken

\* a Create found the stream stopped and returned the conflict result
C9_Witness ==
  /\ Done(1) /\ call[1].op = "create" /\ call[1].first = "stopped"
  /\ call[1].kind = "conflict" /\ main.token # 0

\* C10: with no edge write token in the published metadata, Status returns
\* inactive and issues no LRO status request.
C10_NoTokenInactive ==
  \A p \in Procs :
    (Done(p) /\ call[p].op = "status" /\ main.ingress /\ main.token = 0) =>
      /\ call[p].state = "inactive"
      /\ ~call[p].polled

(***************************************************************************)
(* More properties of the insertion scheduler (checked under SpecIns).     *)
(***************************************************************************)
\* insertion times are seconds from the start of the stream: none negative
InDomain(list) == \A k \in 1..Len(list) : list[k].insertion_time >= 0

\* the 1-based indices of the entries whose time does not strictly exceed
\* the largest time among the entries before them
BadEntries(list) ==
  {k \in 2..Len(list) :
     \E j \in 1..(k - 1) : list[j].insertion_time >= list[k].insertion_time}

HasEqual(list, t) == \E k \in 1..Len(list) : list[k].insertion_time = t

\* 1-based index of the first entry whose time equals t
FirstEqual(list, t) ==
  CHOOSE k \in 1..Len(list) :
    /\ list[k].insertion_time = t
    /\ \A j \in 1..(k - 1) : list[j].insertion_time # t

\* C14: an Insertion call that returns has put into errors one report for
\* every entry of the list it read whose time does not strictly exceed the
\* largest time before it.
C14_ValidationReports ==
  \A p \in Procs :
    LET h == insHist[p] IN
    (h.op # "none" /\ ~h.threw) =>
      Len(h.errors) = Cardinality(BadEntries(h.read))

\* C15: a Remove of time t from a list holding t stores and returns the
\* list without the first entry of time t, all other entries unchanged and
\* in order, and reports no error.
C15_RemoveDeletesFirstMatch ==
  \A p \in Procs :
    LET h == insHist[p] IN
    (h.op = "remove" /\ InDomain(h.read) /\ HasEqual(h.read, h.insertionTime)) =>
      LET k == FirstEqual(h.read, h.insertionTime) IN
      /\ ~h.threw
      /\ h.insertions = SubSeq(h.read, 1, k - 1) \o SubSeq(h.read, k + 1, Len(h.read))
      /\ h.stored = h.insertions
      /\ h.errors = <<>>

\* a Remove has deleted the first of two entries of equal time, in the
\* middle of a list of three
C15_Witness ==
  /\ insHist[1].op = "remove" /\ ins[1].pc = "idle"
  /\ Len(insHist[1].read) = 3
  /\ insHist[1].read[2].insertion_time = insHist[1].insertionTime
  /\ insHist[1].read[3].insertion_time = insHist[1].insertionTime
  /\ insHist[1].read[1].insertion_time < insHist[1].insertionTime
  /\ insHist[1].stored = <<insHist[1].read[1], insHist[1].read[3]>>

\* C16 as claimed: a Remove that finds no entry of its time leaves the list
\* unchanged and reports no error, and a Remove(t) right after a Remove(t)
\* leaves the list as it found it.
C16_RemoveIdempotent ==
  \A p \in Procs :
    LET h == insHist[p] IN
    /\ (h.op = "remove" /\ InDomain(h.read) /\ ~HasEqual(h.read, h.insertionTime)) =>
         /\ ~h.threw /\ h.errors = <<>>
         /\ h.insertions = h.read /\ h.stored = h.read
    /\ (h.op = "remove" /\ h.again) => h.stored = h.read

\* C16 as amended: a Remove that finds no entry of its time leaves the list
\* unchanged and reports no error; a Remove(t) right after a Remove(t)
\* leaves the list as it found it exactly when the first one left no entry
\* of time t, which is so whenever no Upsert has targeted an occupied time;
\* otherwise it deletes one more entry of time t.
C16_RemoveIdempotentWithoutDuplicates ==
  \A p \in Procs :
    LET h == insHist[p] IN
    /\ (h.op = "remove" /\ InDomain(h.read) /\ ~HasEqual(h.read, h.insertionTime)) =>
         /\ ~h.threw /\ h.errors = <<>>
         /\ h.insertions = h.read /\ h.stored = h.read
    /\ (h.op = "remove" /\ h.again /\ InDomain(h.read)) =>
         /\ (h.stored = h.read) <=> ~HasEqual(h.read, h.insertionTime)
         /\ Len(h.stored) >= Len(h.read) - 1
    /\ (h.op = "remove" /\ h.again /\ ~h.occupied) => h.stored = h.read

\* the second of two successive Removes of the same time, on a list built
\* without Upserts on occupied times, has left two entries as it found them
C16_Witness ==
  /\ insHist[1].op = "remove" /\ insHist[1].again /\ ~insHist[1].occupied
  /\ ins[1].pc = "idle"
  /\ Len(insHist[1].read) = 2
  /\ insHist[1].stored = insHist[1].read
  /\ interleaves = insHist[1].read

\* C17: an Upsert of a time that no entry of the list exceeds stores and
\* returns the list it read followed by the new record.
C17_UpsertAppends ==
  \A p \in Procs :
    LET h == insHist[p] IN
    (h.op = "upsert" /\ InDomain(h.read) /\ ~HasGreater(h.read, h.insertionTime)) =>
      /\ ~h.threw
      /\ h.insertions = h.read
           \o <<newInsertion(h.insertionTime, h.duration, h.targetHash)>>
      /\ h.stored = h.insertions
      /\ h.errors = <<>>

\* an Upsert has put its record behind the two entries it found
C17_Witness ==
  /\ insHist[1].op = "upsert" /\ ins[1].pc = "idle"
  /\ Len(insHist[1].read) = 2
  /\ ~HasGreater(insHist[1].read, insHist[1].insertionTime)
  /\ interleaves = insHist[1].read
       \o <<newInsertion(insHist[1].insertionTime, insHist[1].duration,
                         insHist[1].targetHash)>>
  /\ interleaves[3].playout = <<"/qfab/", "h2", "/rep/playout">>

(***************************************************************************)
(* Properties of the status deriver (checked under SpecStatus, where the   *)
(* store, the node and the clock stay as Status found them).               *)
(***************************************************************************)
StatusReturned(p) == Done(p) /\ call[p].op = "status"

\* Status polled the LRO, and the node answered that the task is running
ReportedRunning(p) ==
  /\ StatusReturned(p)
  /\ call[p].polled /\ ~call[p].pollFailed
  /\ lro[main.token].state = "running"

\* C11: when the LRO status request fails, with or without an HTTP
\* response, Status returns a summary whose state is stopped.
C11_PollFailureGivesStopped ==
  \A p \in Procs :
    (StatusReturned(p) /\ call[p].pollFailed) =>
      /\ call[p].kind = "status"
      /\ call[p].state = "stopped"

\* C12: for a task reported running with a non-zero last finalization time,
\* Status derives stalled when the clock is more than 32.9 s past that time
\* and running when it is 32.9 s or less past it.
C12_StalledAbove32_9 ==
  \A p \in Procs :
    (ReportedRunning(p) /\ edge[main.token].lastFin # 0) =>
      LET sinceUs == now * 1000000 - edge[main.token].lastFin IN
      /\ sinceUs > StallThresholdUs => call[p].state = "stalled"
      /\ sinceUs <= StallThresholdUs => call[p].state = "running"

\* C13: for a task reported running whose period never finalized a part,
\* Status derives starting.
C13_StartingWhenNeverFinalized ==
  \A p \in Procs :
    (ReportedRunning(p) /\ edge[main.token].lastFin = 0) =>
      call[p].state = "starting"

\* Status has derived starting at the latest time of the clock
C13_Witness ==
  /\ ReportedRunning(1)
  /\ edge[main.token].lastFin = 0
  /\ now = MaxNow
  /\ call[1].state = "starting"

(***************************************************************************)
(* More properties of the orchestrator (checked under Spec).               *)
(***************************************************************************)
\* C18: stop on a stream whose derived state is inactive returns that
\* status at once: no live/stop, no live/start, no further poll, no sleep.
C18_StopOnInactive ==
  \A p \in Procs :
    (Done(p) /\ call[p].op = "stop" /\ call[p].entry = "inactive") =>
      /\ call[p].kind = "status" /\ call[p].error = ""
      /\ call[p].state = "inactive"
      /\ ~call[p].stopIssued /\ ~call[p].startIssued
      /\ call[p].termPolls = 0 /\ call[p].startPolls = 0
      /\ call[p].sleeps = 0

\* stop has returned inactive on a session that was created, never started
C18_Witness ==
  /\ Done(1) /\ call[1].op = "stop" /\ call[1].entry = "inactive"
  /\ call[1].state = "inactive"
  /\ main.token # 0 /\ edge[main.token].recSeq = 0

\* C19: StopSession on a configured object that advertises no edge write
\* token returns {state: inactive, error} and has issued no live/stop, no
\* ReplaceMetadata and no FinalizeContentObject.
C19_StopSessionNeedsToken ==
  \A p \in Procs :
    (Done(p) /\ call[p].op = "terminate" /\ main.ingress /\ main.token = 0) =>
      /\ call[p].kind = "error"
      /\ call[p].state = "inactive"
      /\ call[p].error = "no active streams - must create a stream first"
      /\ ~call[p].stopIssued /\ ~call[p].replaced /\ ~call[p].finalized
      /\ ~call[p].polled

\* StopSession has returned the precondition error on an object that holds
\* recordings but advertises no edge write token
C19_Witness ==
  /\ Done(1) /\ call[1].op = "terminate"
  /\ main.ingress /\ main.token = 0 /\ main.hasRec
  /\ call[1].kind = "error" /\ call[1].state = "inactive"

C21_StartFailureReturnsError ==
  \A p \in Procs :
    (call[p].startIssued /\ call[p].startTok = 0) =>
      /\ Done(p)
      /\ call[p].kind = "error"
      /\ call[p].error = "LRO start failed - must create a stream first"
      /\ call[p].state = proc[p].status.state
      /\ call[p].state \in {"terminated", "inactive"}
      /\ call[p].startPolls = 0

\* a reset stopped a running recording, saw it terminate, and its live/start
\* was refused
C21_Witness ==
  /\ Done(1) /\ call[1].op = "reset"
  /\ call[1].startIssued /\ call[1].startTok = 0
  /\ call[1].entry = "running" /\ call[1].sawTerm
  /\ call[1].kind = "error" /\ call[1].state = "terminated"

\* C22: on an object whose fabric_config names no ingress node API, the
\* status derivation aborts the call: no create, start, stop, reset or
\* terminate call gets a status summary back and returns it or a conflict
\* as its result, and none issues live/stop, live/start or a poll loop.
C22_NoIngressAborts ==
  \A p \in Procs :
    (Done(p) /\ ~main.ingress /\ call[p].op # "status") =>
      /\ call[p].kind \notin {"status", "conflict"}
      /\ ~call[p].stopIssued /\ ~call[p].startIssued
      /\ call[p].sleeps = 0

\* C23: within a start, stop or reset call, live/stop has been issued
\* before any termination poll is made; and a reset (or create-and-start)
\* that found the stream active has issued live/start only after live/stop
\* and after a termination poll reported terminated.
C23_StopBeforePollBeforeStart ==
  \A p \in Procs :
    call[p].op \in {"start", "stop", "reset", "true"} =>
      /\ call[p].termPolls > 0 => call[p].stopIssued
      /\ (call[p].startIssued /\ EntryActive(p)) =>
           /\ call[p].op \in {"reset", "true"}
           /\ call[p].stopIssued
           /\ call[p].termPolls > 0 /\ call[p].sawTerm

\* a reset found the recording running, needed more than one poll to see it
\* terminated, and restarted it
C23_Witness ==
  /\ Done(1) /\ call[1].op = "reset"
  /\ call[1].entry = "running"
  /\ call[1].stopIssued /\ call[1].termPolls > 1 /\ call[1].sawTerm
  /\ call[1].startIssued /\ call[1].startTok # 0
  /\ call[1].state = "starting"

(***************************************************************************)
(* Two callers running Insertion on one stream at once (checked under      *)
(* SpecInsRace): each runs one Upsert on a list stored earlier.            *)
(***************************************************************************)
\* lists an earlier sequence of Upserts left in the metadata
StoredLists ==
  {list \in UNION {[1..n -> {newInsertion(t, 5, "h1") : t \in 0..MaxTime}] :
                     n \in 0..(MaxLen - 1)} : StrictlyIncreasing(list)}

InitInsRace ==
  /\ nproc = 2
  /\ interleaves \in StoredLists
  /\ ins = [p \in Procs |-> InsIdle]
  /\ insHist = [p \in Procs |-> NoInsHist]
  /\ main = [ingress |-> TRUE, token |-> 1, hasRec |-> FALSE, status |-> "active"]
  /\ edge = [t \in Tokens |-> IF t = 1 THEN [NoEdge EXCEPT !.exists = TRUE] ELSE NoEdge]
  /\ lro = [t \in Tokens |-> NoLro]
  /\ nextTok = 2
  /\ now = 1
  /\ proc = [p \in Procs |-> ProcIdle]
  /\ call = [p \in Procs |-> NoCall]
  /\ termSeen = [t \in Tokens |-> FALSE]

\* one run of the insertion command without --remove
UpsertOnce(p, t, d, h) ==
  /\ insHist[p].op = "none"
  /\ InsertionRead(p, t, d, h, FALSE)

NextInsRace ==
  \/ \E p \in Procs, t \in InsTimes, d \in Durations, h \in Targets :
        UpsertOnce(p, t, d, h)
  \/ \E p \in Procs : InsertionWrite(p)

SpecInsRace == InitInsRace /\ [][NextInsRace]_vars

\* how many entries of list equal rec
Occurrences(list, rec) == Len(SelectSeq(list, LAMBDA e : e = rec))

\* C24: when another caller's Upsert stored its list between the read and
\* the write of an Upsert that returns, the list in the metadata afterwards
\* is the one this later writer computed from what it had read; it holds the
\* other caller's record no more often than the list read did (once more if
\* both callers scheduled the same record): the other insertion is lost.
C24_LastWriterWins ==
  \A p \in Procs :
    (insHist[p].op = "upsert" /\ ~insHist[p].threw /\ insHist[p].lost # <<>>) =>
      LET h     == insHist[p]
          own   == newInsertion(h.insertionTime, h.duration, h.targetHash)
          other == h.lost[1]
      IN  /\ interleaves = h.insertions
          /\ h.stored = h.insertions
          /\ Occurrences(interleaves, other) <=
               Occurrences(h.read, other) + (IF own = other THEN 1 ELSE 0)

\* both callers read the same list, caller 1 stored its insertion at time 1,
\* then caller 2 stored its own at time 2: the entry at time 1 is gone
C24_Witness ==
  /\ insHist[1].op = "upsert" /\ insHist[2].op = "upsert"
  /\ insHist[1].read = insHist[2].read
  /\ insHist[1].insertionTime = 1 /\ insHist[2].insertionTime = 2
  /\ Len(insHist[1].stored) = Len(insHist[1].read) + 1
  /\ insHist[2].lost = <<newInsertion(1, 5, "h1")>>
  /\ ~insHist[2].threw
  /\ interleaves = insHist[2].stored
  /\ Len(interleaves) = Len(insHist[2].read) + 1
  /\ \A k \in 1..Len(interleaves) : interleaves[k].insertion_time # 1

(***************************************************************************)
(* The poll budgets (checked under Spec).                                  *)
(***************************************************************************)
\* C25: a reset (or create-and-start) on an active stream whose termination
\* loop saw terminated on any of its polls, the 10th included, goes on to
\* issue live/start.
C25_ResetStartsAfterTerminated ==
  \A p \in Procs :
    (Done(p) /\ call[p].op \in {"reset", "true"} /\ EntryActive(p) /\ call[p].sawTerm)
      => call[p].startIssued

\* C26: a StopSession whose termination loop saw terminated on any of its
\* polls, the 10th included, goes on to write the terminal metadata; one
\* that returns the polled status without writing returns a state other
\* than terminated.
C26_StopSessionWritesAfterTerminated ==
  \A p \in Procs :
    (Done(p) /\ call[p].op = "terminate" /\ call[p].kind = "status") =>
      /\ (call[p].sawTerm /\ ~proc[p].edgeMeta.closed) => call[p].replaced
      /\ ~call[p].replaced => call[p].state # "terminated"

\* C27: once a StopSession has written the terminal metadata and returned
\* terminated, the published metadata, which the next operation reads,
\* advertises no edge write token.
C27_TokenClearedAfterStopSession ==
  \A p \in Procs :
    (Done(p) /\ call[p].op = "terminate" /\ call[p].replaced /\ call[p].finalized
       /\ call[p].state = "terminated")
      => main.token = 0

\* C28: a StopSession whose termination loop made all 10 polls and never
\* saw terminated returns the status of the last poll, whose state is not
\* terminated, with no error; it has issued no ReplaceMetadata and no
\* FinalizeContentObject: what is staged under the token (status block, stop
\* time, fabric_config token, open or finalized) is as the call read it, and
\* the published metadata advertises the same token.
C28_StopSessionTimeoutWritesNothing ==
  \A p \in Procs :
    (Done(p) /\ call[p].op = "terminate"
       /\ call[p].termPolls = TerminateTries /\ ~call[p].sawTerm) =>
      LET t == proc[p].edgeToken IN
      /\ call[p].kind = "status" /\ call[p].error = ""
      /\ call[p].state = proc[p].status.state
      /\ call[p].state # "terminated"
      /\ ~call[p].replaced /\ ~call[p].finalized
      /\ t # 0 /\ main.token = t
      /\ edge[t].status = proc[p].edgeMeta.status
      /\ edge[t].stop_time = proc[p].edgeMeta.stop_time
      /\ edge[t].fc_token = proc[p].edgeMeta.fc_token
      /\ edge[t].closed = proc[p].edgeMeta.closed

\* StopSession polled a running recording 10 times, the recording kept
\* running, and the call returned running with the token still open
C28_Witness ==
  /\ Done(1) /\ call[1].op = "terminate"
  /\ call[1].stopIssued
  /\ call[1].termPolls = TerminateTries /\ ~call[1].sawTerm
  /\ call[1].state = "running"
  /\ main.token # 0 /\ ~edge[main.token].closed
  /\ edge[main.token].status = "active"

(***************************************************************************)
(* Termination.  A call is one async function: between two awaits it runs  *)
(* to the next one, and every request it awaits is answered (with a result *)
(* or a failure), so each step of a call in progress is eventually taken.  *)
(***************************************************************************)
CallStep(p) ==
  \/ SSRStatus(p) \/ SSRStop(p) \/ SSRTermPoll(p) \/ SSRStart(p) \/ SSRStartPoll(p)
  \/ StopSessionRead(p) \/ StopSessionStatus(p) \/ StopSessionStop(p)
  \/ StopSessionPoll(p) \/ StopSessionReplace(p) \/ StopSessionFinalize(p)

\* a configured object: no session yet, a session created, or a session
\* created and started (its recording task running)
InitFair ==
  /\ nproc = 1
  /\ \E ingress \in BOOLEAN, created \in BOOLEAN, started \in BOOLEAN :
       /\ created => ingress
       /\ started => created
       /\ main = IF created
                   THEN [ingress |-> TRUE, token |-> 1, hasRec |-> FALSE,
                         status |-> "active"]
                   ELSE [ingress |-> ingress, token |-> 0, hasRec |-> FALSE,
                         status |-> ""]
       /\ edge = [t \in Tokens |->
                    IF t = 1 /\ started
                      THEN [NoEdge EXCEPT !.exists = TRUE, !.recSeq = 1, !.live = TRUE]
                    ELSE IF t = 1 /\ created THEN [NoEdge EXCEPT !.exists = TRUE]
                    ELSE NoEdge]
       /\ lro = [t \in Tokens |->
                   IF t = 1 /\ started THEN [state |-> "running", stopReq |-> FALSE]
                                       ELSE NoLro]
       /\ nextTok = IF created THEN 2 ELSE 1
  /\ now = 1
  /\ proc = [p \in Procs |-> ProcIdle]
  /\ call = [p \in Procs |-> NoCall]
  /\ termSeen = [t \in Tokens |-> FALSE]
  /\ interleaves = <<>>
  /\ ins = [p \in Procs |-> InsIdle]
  /\ insHist = [p \in Procs |-> NoInsHist]

\* start, stop, reset and terminate calls, the recording task and the clock
NextFair ==
  \/ \E p \in Procs, op \in {"start", "stop", "reset"} : SSRBegin(p, op)
  \/ \E p \in Procs : SSRStatus(p)
  \/ \E p \in Procs : SSRStop(p)
  \/ \E p \in Procs : SSRTermPoll(p)
  \/ \E p \in Procs : SSRStart(p)
  \/ \E p \in Procs : SSRStartPoll(p)
  \/ \E p \in Procs : StopSessionBegin(p)
  \/ \E p \in Procs : StopSessionRead(p)
  \/ \E p \in Procs : StopSessionStatus(p)
  \/ \E p \in Procs : StopSessionStop(p)
  \/ \E p \in Procs : StopSessionPoll(p)
  \/ \E p \in Procs : StopSessionReplace(p)
  \/ \E p \in Procs : StopSessionFinalize(p)
  \/ \E t \in Tokens : LroTerminates(t)
  \/ \E t \in Tokens : FeedArrives(t)
  \/ Tick

SpecFair ==
  InitFair /\ [][NextFair]_vars /\ \A p \in Procs : WF_vars(CallStep(p))

\* a start, stop, reset, create-and-start or terminate call is under way
InCall(p) ==
  /\ call[p].op \in {"start", "stop", "reset", "true", "terminate"}
  /\ proc[p].pc \notin {"idle", "done"}

\* the budgets: at most 10 termination polls and 10 start polls, one sleep
\* per poll, and the tries counter never below -1
WithinBudget(p) ==
  /\ call[p].termPolls \in 0..TerminateTries
  /\ call[p].startPolls \in 0..StartTries
  /\ call[p].sleeps = call[p].termPolls + call[p].startPolls
  /\ proc[p].tries \in -1..TerminateTries

\* C29: every start, stop, reset and terminate call stays within its
\* budgets (at most 10 polls in the termination loop and 10 in the start
\* loop, each after exactly one sleep), and every such call under way
\* eventually returns, whatever the recording task and the metadata store
\* answer.
C29_CallsReturn ==
  /\ [](\A p \in Procs : WithinBudget(p))
  /\ \A p \in Procs : InCall(p) ~> Done(p)

\* a reset has returned after the longest run there is: terminated seen on
\* the 9th termination poll, then 10 start polls, 19 sleeps
C29_Witness ==
  /\ Done(1) /\ call[1].op = "reset"
  /\ call[1].termPolls = TerminateTries - 1 /\ call[1].startPolls = StartTries
  /\ call[1].sleeps = TerminateTries + StartTries - 1
  /\ proc[1].tries = -1

\* C30: once live/start was accepted, the call keeps polling only while no
\* poll has reported starting and fewer than 10 polls were made; it returns
\* the status of its last poll with no error, after at least one poll, and
\* that status is starting unless all 10 polls were used.
C30_StartLoopReturns ==
  \A p \in Procs :
    call[p].startTok # 0 =>
      /\ proc[p].pc = "ssr_startpoll" =>
           /\ proc[p].status.state # "starting"
           /\ call[p].startPolls < StartTries
      /\ Done(p) =>
           /\ call[p].kind = "status" /\ call[p].error = ""
           /\ call[p].state = proc[p].status.state
           /\ call[p].startPolls \in 1..StartTries
           /\ call[p].state = "starting" \/ call[p].startPolls = StartTries

\* a start was accepted, the feed arrived before the first poll, all 10
\* polls reported running, and the call returned running without error
C30_Witness ==
  /\ Done(1) /\ call[1].op = "start"
  /\ call[1].startTok # 0
  /\ call[1].startPolls = StartTries
  /\ call[1].kind = "status" /\ call[1].state = "running" /\ call[1].error = ""

(***************************************************************************)
(* Start on a stream that is already up (checked under Spec).              *)
(***************************************************************************)
\* C31: a start on a stream whose first derived state is starting, running
\* or stalled returns that status at once: no live/stop, no live/start (the
\* only request of this operation that changes metadata), no further poll
\* and no sleep.
C31_StartOnActiveIsNoOp ==
  \A p \in Procs :
    (call[p].op = "start" /\ call[p].entry \in {"starting", "running", "stalled"}) =>
      /\ Done(p)
      /\ call[p].kind = "status" /\ call[p].error = ""
      /\ call[p].state = call[p].entry
      /\ ~call[p].stopIssued /\ ~call[p].startIssued
      /\ call[p].termPolls = 0 /\ call[p].startPolls = 0
      /\ call[p].sleeps = 0

\* a start has returned stalled on a recording whose feed stopped arriving
C31_Witness ==
  /\ Done(1) /\ call[1].op = "start" /\ call[1].entry = "stalled"
  /\ call[1].state = "stalled"
  /\ main.token # 0 /\ lro[main.token].state = "running"

\* C32: on an object that names its ingress node, a Status whose metadata
\* read failed (so that it never got to ask the node for the task's state)
\* does not return a summary as its result: every summary Status returns
\* without having polled carries a state.
C32_FailedReadAborts ==
  \A p \in Procs :
    (Done(p) /\ call[p].op = "status" /\ main.ingress /\ ~call[p].polled) =>
      ~(call[p].kind = "status" /\ call[p].state = NoState)

(***************************************************************************)
(* Two operators stopping one stream at once (checked under SpecStopRace): *)
(* each runs one stop on a session whose recording task is running.        *)
(***************************************************************************)
InitStopRace ==
  /\ nproc = 2
  /\ main = [ingress |-> TRUE, token |-> 1, hasRec |-> FALSE, status |-> "active"]
  /\ edge = [t \in Tokens |->
               IF t = 1 THEN [NoEdge EXCEPT !.exists = TRUE, !.recSeq = 1, !.live = TRUE]
                        ELSE NoEdge]
  /\ lro = [t \in Tokens |-> IF t = 1 THEN [state |-> "running", stopReq |-> FALSE]
                                      ELSE NoLro]
  /\ nextTok = 2
  /\ now = 1
  /\ proc = [p \in Procs |-> ProcIdle]
  /\ call = [p \in Procs |-> NoCall]
  /\ termSeen = [t \in Tokens |-> FALSE]
  /\ interleaves = <<>>
  /\ ins = [p \in Procs |-> InsIdle]
  /\ insHist = [p \in Procs |-> NoInsHist]

\* one run of the stop command
StopOnce(p) ==
  /\ call[p].op = "none"
  /\ SSRBegin(p, "stop")

NextStopRace ==
  \/ \E p \in Procs : StopOnce(p)
  \/ \E p \in Procs : SSRStatus(p)
  \/ \E p \in Procs : SSRStop(p)
  \/ \E p \in Procs : SSRTermPoll(p)
  \/ \E t \in Tokens : LroTerminates(t)
  \/ \E t \in Tokens : FeedArrives(t)

SpecStopRace == InitStopRace /\ [][NextStopRace]_vars

\* C33: of two stop calls running interleaved on an active stream, each one
\* that found the stream active has issued live/stop and returns a status
\* without error; it returns before its 10th poll only on a poll that
\* reported terminated, and it returns state terminated exactly when one of
\* its polls (or its first status) reported terminated.  So when the task
\* terminates within a call's budget, that call returns terminated.
C33_ConcurrentStopsTerminate ==
  \A p \in Procs :
    (Done(p) /\ call[p].op = "stop") =>
      /\ call[p].kind = "status" /\ call[p].error = ""
      /\ EntryActive(p) => call[p].stopIssued
      /\ (EntryActive(p) /\ ~call[p].sawTerm) => call[p].termPolls = TerminateTries
      /\ (call[p].sawTerm \/ call[p].entry = "terminated")
           <=> call[p].state = "terminated"

\* both callers found the recording running, both issued live/stop, and
\* both returned terminated
C33_Witness ==
  /\ \A p \in Procs :
       /\ Done(p) /\ call[p].op = "stop"
       /\ call[p].entry = "running" /\ call[p].stopIssued
       /\ call[p].sawTerm /\ call[p].state = "terminated"
  /\ call[1].termPolls # call[2].termPolls

(***************************************************************************)
(* Two operators creating a session on one object at once (checked under   *)
(* SpecCreateRace): creates without --start on a configured object that    *)
(* has no session.                                                         *)
(***************************************************************************)
InitCreateRace ==
  /\ nproc = 2
  /\ main = [ingress |-> TRUE, token |-> 0, hasRec |-> FALSE, status |-> ""]
  /\ edge = [t \in Tokens |-> NoEdge]
  /\ lro = [t \in Tokens |-> NoLro]
  /\ nextTok = 1
  /\ now = 1
  /\ proc = [p \in Procs |-> ProcIdle]
  /\ call = [p \in Procs |-> NoCall]
  /\ termSeen = [t \in Tokens |-> FALSE]
  /\ interleaves = <<>>
  /\ ins = [p \in Procs |-> InsIdle]
  /\ insHist = [p \in Procs |-> NoInsHist]

\* creates without --start and status requests, by either caller
NextCreateRace ==
  \/ \E p \in Procs : StatusCmd(p)
  \/ \E p \in Procs : CreateBegin(p, FALSE)
  \/ \E p \in Procs : CreateStatus(p)
  \/ \E p \in Procs : CreateEdit(p)
  \/ \E p \in Procs : CreateFinalize(p)

SpecCreateRace == InitCreateRace /\ [][NextCreateRace]_vars

\* caller p's create derived its status while no token was advertised, went
\* on to publish a session, and returned a status
Created(p) ==
  /\ Done(p) /\ call[p].op = "create"
  /\ call[p].first = "inactive" /\ call[p].seenToken = 0
  /\ call[p].finalized
  /\ call[p].kind = "status"

\* C34: of two creates that both derived their status before either
\* published, at most one returns a created session, and a create that
\* returned one returned the token the published metadata advertises.
C34_OneCurrentToken ==
  \A p \in Procs, q \in Procs :
    (p # q /\ Created(p)) =>
      /\ ~Created(q)
      /\ call[p].token = main.token

(***************************************************************************)
(* Upsert at an occupied time (checked under SpecIns).                     *)
(***************************************************************************)
\* the 1-based indices of the entries of list whose time is t
EntriesAt(list, t) == {k \in 1..Len(list) : list[k].insertion_time = t}

\* C35: an Upsert of time t into a sorted list of times >= 0 that holds
\* exactly one entry of time t, at index k, returns and stores a list in
\* which that entry is still at k and the new record follows it at k + 1;
\* the entry that followed in the list read (the first one later than t), if
\* there is one, comes next at k + 2, otherwise the new record is last.  The
\* list holds two entries of time t and is non-decreasing.
C35_UpsertAtOccupiedTime ==
  \A p \in Procs :
    LET h == insHist[p] IN
    (h.op = "upsert" /\ InDomain(h.read) /\ IsSorted(h.read)
       /\ Cardinality(EntriesAt(h.read, h.insertionTime)) = 1) =>
      LET k == FirstEqual(h.read, h.insertionTime) IN
      /\ ~h.threw
      /\ h.stored = h.insertions
      /\ Len(h.stored) >= k + 1
      /\ h.stored[k] = h.read[k]
      /\ h.stored[k + 1] = newInsertion(h.insertionTime, h.duration, h.targetHash)
      /\ IF HasGreater(h.read, h.insertionTime)
           THEN Len(h.stored) >= k + 2 /\ h.stored[k + 2] = h.read[k + 1]
           ELSE Len(h.stored) = k + 1
      /\ Cardinality(EntriesAt(h.stored, h.insertionTime)) = 2
      /\ IsSorted(h.stored)

(***************************************************************************)
(* StopSession while the insertion command runs on the same session        *)
(* (checked under SpecStopIns): caller 1's slots proc[1] and ins[1] hold    *)
(* the two commands, which share nothing but the store.                    *)
(***************************************************************************)
InitStopIns ==
  /\ nproc = 1
  /\ main = [ingress |-> TRUE, token |-> 1, hasRec |-> FALSE, status |-> "active"]
  /\ edge = [t \in Tokens |->
               IF t = 1 THEN [NoEdge EXCEPT !.exists = TRUE, !.recSeq = 1, !.live = TRUE]
                        ELSE NoEdge]
  /\ lro = [t \in Tokens |-> IF t = 1 THEN [state |-> "running", stopReq |-> FALSE]
                                      ELSE NoLro]
  /\ nextTok = 2
  /\ now = 1
  /\ proc = [p \in Procs |-> ProcIdle]
  /\ call = [p \in Procs |-> NoCall]
  /\ termSeen = [t \in Tokens |-> FALSE]
  /\ interleaves \in {list \in StoredLists : Len(list) <= 1}
  /\ ins = [p \in Procs |-> InsIdle]
  /\ insHist = [p \in Procs |-> NoInsHist]

\* one run of the terminate command
TerminateOnce(p) ==
  /\ call[p].op = "none"
  /\ StopSessionBegin(p)

NextStopIns ==
  \/ \E p \in Procs : TerminateOnce(p)
  \/ \E p \in Procs : StopSessionRead(p)
  \/ \E p \in Procs : StopSessionStatus(p)
  \/ \E p \in Procs : StopSessionStop(p)
  \/ \E p \in Procs : StopSessionPoll(p)
  \/ \E p \in Procs : StopSessionReplace(p)
  \/ \E p \in Procs : StopSessionFinalize(p)
  \/ \E t \in Tokens : LroTerminates(t)
  \/ \E p \in Procs, t \in InsTimes, d \in Durations, h \in Targets :
        UpsertOnce(p, t, d, h)
  \/ \E p \in Procs : InsertionWrite(p)

SpecStopIns == InitStopIns /\ [][NextStopIns]_vars

\* C36: once StopSession has finalized the token, the metadata under it is
\* the snapshot read before the loop, changed only in the stop time, the
\* status block and the emptied fabric_config token; and if the last list
\* the insertion command stored was written between that read and the
\* ReplaceMetadata, the interleave list under the token is the snapshot's,
\* not the stored one.
C36_StopSessionOverwritesInsertions ==
  \A p \in Procs :
    (call[p].op = "terminate" /\ call[p].finalized) =>
      LET t == proc[p].edgeToken IN
      /\ edge[t] = [TerminalMeta(proc[p].edgeMeta, edge[t].stop_time)
                      EXCEPT !.closed = TRUE]
      /\ \A q \in Procs :
           (insHist[q].op # "none" /\ ~insHist[q].threw /\ insHist[q].duringStop) =>
             interleaves = proc[p].edgeInterleaves

\* StopSession read an empty interleave list, an Upsert stored one entry
\* while it was polling, and the finalized metadata holds no entry
C36_Witness ==
  /\ Done(1) /\ call[1].op = "terminate" /\ call[1].finalized
  /\ insHist[1].op = "upsert" /\ ~insHist[1].threw /\ insHist[1].duringStop
  /\ Len(insHist[1].stored) = 1
  /\ proc[1].edgeInterleaves = <<>>
  /\ interleaves = <<>>
  /\ edge[1].closed

(***************************************************************************)
(* StopSession on a session that was never started (checked under Spec).   *)
(***************************************************************************)
\* C37: a StopSession whose first status is inactive (an edge write token
\* is advertised, its metadata holds no recording sequence) attempts
\* live/stop, makes all 10 polls, each deriving inactive, and returns state
\* inactive without error; it has replaced and finalized nothing, the token
\* is still open, holds the metadata the call read, and is still advertised
\* by the published metadata.
C37_StopSessionNeverStarted ==
  \A p \in Procs :
    (call[p].op = "terminate" /\ call[p].entry = "inactive") =>
      LET t == proc[p].edgeToken IN
      /\ ~call[p].replaced /\ ~call[p].finalized /\ ~call[p].sawTerm
      /\ proc[p].status.state = "inactive"
      /\ t # 0 /\ main.token = t
      /\ ~edge[t].closed /\ edge[t] = proc[p].edgeMeta
      /\ Done(p) =>
           /\ call[p].stopIssued
           /\ call[p].termPolls = TerminateTries
           /\ call[p].kind = "status" /\ call[p].error = ""
           /\ call[p].state = "inactive"

\* StopSession has returned inactive after 10 polls on a session that was
\* created and never started
C37_Witness ==
  /\ Done(1) /\ call[1].op = "terminate" /\ call[1].entry = "inactive"
  /\ call[1].termPolls = TerminateTries /\ call[1].state = "inactive"
  /\ main.token # 0 /\ edge[main.token].recSeq = 0 /\ ~edge[main.token].closed

====
